---- MODULE Spec2Model ----
(***************************************************************************)
(* Clip-retrieval core of the medical animation editor: the index store    *)
(* (core/library.py, core/ingest_one.py, medu_anim_clean/ingest_clips.py), *)
(* the query composer and the similarity ranker (core/match.py).           *)
(*                                                                         *)
(* Floating point values are modelled in fixed point: the integer One      *)
(* stands for 1.0, durations are in tenths of a second, and every          *)
(* division rounds down.  A float that may be NaN is a record              *)
(* [nan |-> BOOLEAN, v |-> Int].  The 512 columns of the ViT-B-32          *)
(* embedding space are abstracted to 2 columns, the columns of any other   *)
(* open_clip model to 3.                                                   *)
(***************************************************************************)
EXTENDS Integers, Sequences, FiniteSets, TLC

VARIABLES
    diskTable,   \* data/library.parquet : sequence of rows
    diskVecs,    \* data/vectors.npy     : [ncols, rows]
    diskIds,     \* data/id_index.json   : sequence of ids
    df,          \* the caller's in-memory table      (streamlit_app.py: df)
    vecs,        \* the caller's in-memory matrix     (streamlit_app.py: VECTORS)
    ids,         \* the caller's in-memory id list    (streamlit_app.py: ID_INDEX)
    last,        \* the operation that ran last and how it ended
    nfaults,     \* I/O errors injected so far
    plan,        \* item.visual_plan of the sentence being edited
    call,        \* the last clip_match call: its inputs and what it computed
    prev,        \* <<takes, top_idx>> of the call before it when its inputs were the same
    tieOrder,    \* how this build's np.argsort orders equal keys
    accepted,    \* item.accepted_take of the sentence being edited
    cache,       \* what lru_cache holds for _load_text_model()
    loads,       \* how many times the text model was built in this process
    writers,     \* the ingest_one calls of two sessions that run at once
    threads,     \* the threads inside _load_text_model at once
    sentences,   \* st.session_state["sentences"]: scene key -> list of SentenceItem
    edl          \* st.session_state["edl"]

matchVars == <<plan, call, prev, tieOrder, accepted, cache, loads>>

storeVars == <<diskTable, diskVecs, diskIds, df, vecs, ids>>

raceVars == <<writers, threads>>

edlVars == <<sentences, edl>>

----------------------------------------------------------------------------
(* Bounds *)

MaxClips == 2      \* rows an index may hold
MaxFiles == 2      \* files one bulk ingestion crawls
MaxFaults == 1     \* I/O errors in one run
MaxLib == 3        \* rows of the library the ranker is run on
MaxRank == 5      \* rows of the libraries the ordering is checked on
MaxCalls == 3     \* encoder calls one thread makes
MaxK == 2          \* largest k asked of clip_match
MaxItems == 2      \* sentences a scene of the script has

----------------------------------------------------------------------------
(* Fixed point numbers *)

One == 10 * 100

F(x) == [nan |-> FALSE, v |-> x]
NaN == [nan |-> TRUE, v |-> 0]

RECURSIVE SumSeq(_)
SumSeq(s) == IF s = <<>> THEN 0 ELSE Head(s) + SumSeq(Tail(s))

RECURSIVE ISqrtIn(_, _, _)
\* the largest r in lo..hi with r * r <= n, by bisection
ISqrtIn(n, lo, hi) ==
    IF lo >= hi THEN lo
    ELSE LET mid == (lo + hi + 1) \div 2
         IN  IF mid * mid <= n THEN ISqrtIn(n, mid, hi) ELSE ISqrtIn(n, lo, mid - 1)

\* floor of the square root
ISqrt(n) == ISqrtIn(n, 0, IF n < 40000 THEN n ELSE 40000)

Dot(a, b) == SumSeq([i \in 1..Len(a) |-> a[i] * b[i]])

\* the L2 norm of a fixed point vector, in the same unit as its coordinates
Norm(v) == ISqrt(Dot(v, v))

\* v / norm(v): what `feat / feat.norm(dim=-1, keepdim=True)` and
\* `mean / np.linalg.norm(mean)` compute
Normalize(v) == [i \in 1..Len(v) |-> (v[i] * One) \div Norm(v)]

----------------------------------------------------------------------------
(* Media files: what ffprobe, ffmpeg and sha256 make of their bytes *)

\* a media file is a name and its bytes; copy.mp4 holds the bytes of a.mp4
Files == { [name |-> "a.mp4",    bytes |-> "A"],
           [name |-> "b.mp4",    bytes |-> "B"],
           [name |-> "c.mp4",    bytes |-> "C"],
           [name |-> "copy.mp4", bytes |-> "A"],
           [name |-> "d.mp4",    bytes |-> "D"],
           [name |-> "e.mp4",    bytes |-> "E"],
           [name |-> "z.mp4",    bytes |-> "Z"],
           [name |-> "x.mp4",    bytes |-> "X"] }

\* order of the names, as sorted() orders the crawled paths
NameRank(n) == CASE n = "a.mp4" -> 1 [] n = "b.mp4" -> 2 [] n = "c.mp4" -> 3
                 [] n = "copy.mp4" -> 4 [] n = "d.mp4" -> 5 [] n = "e.mp4" -> 6
                 [] n = "x.mp4" -> 7 [] n = "z.mp4" -> 8

\* hashlib.sha256(...).hexdigest(), shortened to 6 hex digits
sha256_file(b) == CASE b = "A" -> <<"3", "f", "a", "0", "1", "c">>
                    [] b = "B" -> <<"9", "1", "b", "e", "7", "7">>
                    [] b = "C" -> <<"0", "d", "4", "4", "e", "2">>
                    [] b = "D" -> <<"6", "6", "0", "a", "d", "1">>
                    [] b = "E" -> <<"b", "2", "8", "f", "3", "5">>
                    [] b = "Z" -> <<"c", "5", "5", "a", "0", "9">>
                    [] b = "X" -> <<"7", "e", "2", "b", "b", "0">>

\* checksum[:16], on the shortened digest its first 4 digits
ClipId(checksum) == SubSeq(checksum, 1, 4)

\* ffprobe: "fail" when it exits non-zero (X is not a video), else the
\* format.duration it prints, "none" when the container has none
ffprobe_metadata(b) == CASE b = "A" -> [status |-> "ok", duration |-> "50"]
                         [] b = "B" -> [status |-> "ok", duration |-> "80"]
                         [] b = "C" -> [status |-> "ok", duration |-> "55"]
                         [] b = "D" -> [status |-> "ok", duration |-> "65"]
                         [] b = "E" -> [status |-> "ok", duration |-> "40"]
                         [] b = "Z" -> [status |-> "ok", duration |-> "none"]
                         [] b = "X" -> [status |-> "fail", duration |-> "none"]

\* float() of the text ffprobe printed, in tenths of a second
ParseFloat(s) == CASE s = "50" -> 50 [] s = "80" -> 80 [] s = "55" -> 55
                   [] s = "65" -> 65 [] s = "40" -> 40

\* the frames ffmpeg's thumbnail filter writes, each as the image feature
\* the model computes for it (before normalisation); Z yields no frame
extract_keyframes(b) == CASE b = "A" -> << <<3, 4>> >>
                          [] b = "B" -> << <<6, 8>>, <<3, 4>> >>
                          [] b = "C" -> << <<4, 3>> >>
                          [] b = "D" -> << <<5, 12>> >>
                          [] b = "E" -> << <<12, 5>> >>
                          [] b = "Z" -> << >>
                          [] b = "X" -> << >>

\* open_clip models: ViT-B-32 has 512 columns (here 2), the other 768 (here 3)
Models == {"ViT-B-32", "ViT-L-14"}

\* model.encode_image for one frame
EncodeImage(model, frame) == IF model = "ViT-B-32" THEN frame ELSE frame \o <<0>>

\* np.zeros((512,)): the fallback of embed_keyframes
ZeroVec == <<0, 0>>

RECURSIVE VecSum(_)
VecSum(vs) == IF Len(vs) = 1 THEN vs[1]
              ELSE [i \in 1..Len(vs[1]) |-> vs[1][i] + VecSum(Tail(vs))[i]]

\* embed_keyframes: mean of the normalised frame features, normalised again
EmbedFrames(model, frames) ==
    LET feats == [j \in 1..Len(frames) |-> Normalize(EncodeImage(model, frames[j]))]
    IN  IF feats = <<>> THEN ZeroVec
        ELSE LET sum  == VecSum(feats)
                 mean == [i \in 1..Len(sum) |-> sum[i] \div Len(feats)]
             IN  Normalize(mean)

\* the embedding of every file under every model, computed once
EmbTable == [model \in Models |->
               [b \in {f.bytes : f \in Files} |-> EmbedFrames(model, extract_keyframes(b))]]

\* embed_keyframes(model, preprocess, device, extract_keyframes(path, ...))
embed_keyframes(model, b) == EmbTable[model][b]

----------------------------------------------------------------------------
(* The index store *)

EmptyMatrix == [ncols |-> 2, rows |-> <<>>]

\* a vstack that appends the row whatever its length
NpVstackUnchecked(m, emb) ==
    [status |-> "ok", value |-> [ncols |-> m.ncols, rows |-> Append(m.rows, emb)]]

\* np.vstack([vecs, emb[None, :]]): raises ValueError when the row lengths differ
NpVstack(m, emb) ==
    IF Len(emb) # m.ncols THEN [status |-> "ValueError", value |-> m]
    ELSE [status |-> "ok", value |-> [ncols |-> m.ncols, rows |-> Append(m.rows, emb)]]

\* np.vstack(vecs) of the bulk script: a list of 1-d arrays
NpVstackAll(vs) ==
    IF \E i \in 1..Len(vs) : Len(vs[i]) # Len(vs[1])
    THEN [status |-> "ValueError", value |-> EmptyMatrix]
    ELSE [status |-> "ok", value |-> [ncols |-> Len(vs[1]), rows |-> vs]]

\* a row whose id also depends on the name the file was stored under
OneRowNamedId(f) ==
    LET checksum == sha256_file(f.bytes)
        probe    == ffprobe_metadata(f.bytes)
    IN  [id |-> SubSeq(checksum, 1, 3) \o <<f.name>>, uri |-> f.name, source |-> "comfy",
         duration |-> IF probe.duration = "none" THEN F(0) ELSE F(ParseFloat(probe.duration)),
         checksum |-> checksum]

\* the row ingest_one builds (ingest_one.py:33-40)
OneRow(f) ==
    LET checksum == sha256_file(f.bytes)
        probe    == ffprobe_metadata(f.bytes)
    IN  [id |-> ClipId(checksum), uri |-> f.name, source |-> "comfy",
         duration |-> IF probe.duration = "none" THEN F(0) ELSE F(ParseFloat(probe.duration)),
         checksum |-> checksum]

\* an append that overwrites the row that already has the id
PdUpsert(t, row) ==
    IF \E i \in 1..Len(t) : t[i].id = row.id
    THEN [i \in 1..Len(t) |-> IF t[i].id = row.id THEN row ELSE t[i]]
    ELSE Append(t, row)

\* pd.concat([df, pd.DataFrame([row])], ignore_index=True)
PdConcat(t, row) == Append(t, row)

\* an append that records the whole checksum instead of the id
AppendChecksum(idl, row) == Append(idl, row.checksum)

\* ids + [row["id"]]
AppendId(idl, row) == Append(idl, row.id)

\* the three writes of a persist step, in the order the code makes them; a
\* write that fails leaves its file, and the files after it, as they were
Persist(fault, t, m, i) ==
    /\ diskTable' = IF fault = "parquet" THEN diskTable ELSE t
    /\ diskVecs'  = IF fault \in {"parquet", "npsave"} THEN diskVecs ELSE m
    /\ diskIds'   = IF fault \in {"parquet", "npsave", "json"} THEN diskIds ELSE i

Faults == {"none", "embed", "parquet", "npsave", "json"}

\* no clip_match call made on the current handles yet
NoCall == [status |-> "none"]

\* st.session_state["edl"] before "Build EDL" was clicked (streamlit_app.py:110)
NoEdl == [video |-> <<>>, audio |-> <<>>]

\* item.accepted_take before a take was accepted
NoTake == [source |-> "none"]

\* an item whose accepted take is dropped when the library is touched
ItemReset == accepted' = NoTake

\* load_index, ingest_one and clip_match are not handed the sentence items:
\* the dict stored by "Accept take" is out of their reach
ItemUntouched == accepted' = accepted

\* load_index: reads the three files and returns them as they are
load_index == <<diskTable, diskVecs, diskIds>>

LoadIndex ==
    /\ df' = load_index[1]
    /\ vecs' = load_index[2]
    /\ ids' = load_index[3]
    /\ last' = [op |-> "load_index", status |-> "ok"]
    /\ call' = NoCall /\ prev' = <<>>
    /\ ItemUntouched
    /\ UNCHANGED <<diskTable, diskVecs, diskIds, nfaults, plan, tieOrder, cache, loads,
                     raceVars, edlVars>>

\* ingest_one(src, assets_root, df, vecs, ids) called from the editor
\* (streamlit_app.py:252), whose handles are rebound only when it returns.
\* fault = "embed": load_clip_model is not bound in ingest_one.py; the call
\* at line 31 raises unless the name is supplied from elsewhere, and ffmpeg
\* or the model load may fail too.  The other faults are I/O errors of the
\* three writes.
IngestOne(f, fault) ==
    LET probe == ffprobe_metadata(f.bytes)
        emb   == embed_keyframes("ViT-B-32", f.bytes)
        row   == OneRow(f)
        df2   == PdConcat(df, row)
        vs    == NpVstack(vecs, emb)
        ids2  == AppendId(ids, row)
        raised == IF probe.status = "fail" THEN "RuntimeError"
                  ELSE IF fault = "embed" THEN "NameError"
                  ELSE IF vs.status # "ok" THEN "ValueError"
                  ELSE IF fault # "none" THEN "OSError"
                  ELSE "ok"
    IN  /\ Len(df) < MaxClips /\ Len(vecs.rows) < MaxClips /\ Len(ids) < MaxClips
        /\ fault \in {"parquet", "npsave", "json"} => nfaults < MaxFaults
        /\ nfaults' = IF raised = "OSError" THEN nfaults + 1 ELSE nfaults
        /\ call' = NoCall /\ prev' = <<>>
        /\ ItemUntouched
        /\ UNCHANGED <<plan, tieOrder, cache, loads,
                     raceVars, edlVars>>
        /\ last' = [op |-> "ingest_one", status |-> raised, file |-> f,
                    embcols |-> Len(emb)]
        /\ IF raised \in {"RuntimeError", "NameError", "ValueError"}
           THEN UNCHANGED storeVars
           ELSE /\ Persist(fault, df2, vs.value, ids2)
                /\ IF raised = "ok"
                   THEN df' = df2 /\ vecs' = vs.value /\ ids' = ids2
                   ELSE UNCHANGED <<df, vecs, ids>>

----------------------------------------------------------------------------
(* Bulk ingestion: medu_anim_clean/ingest_clips.py *)

RECURSIVE SortedByName(_)
\* crawl_assets: sorted(files)
SortedByName(S) ==
    IF S = {} THEN <<>>
    ELSE LET f == CHOOSE x \in S : \A y \in S : NameRank(x.name) <= NameRank(y.name)
         IN  <<f>> \o SortedByName(S \ {f})

\* process_clip: the ClipMeta and the embedding of one file, or the
\* exception that main() catches and prints
process_clip(model, f) ==
    LET checksum == sha256_file(f.bytes)
        probe    == ffprobe_metadata(f.bytes)
    IN  IF probe.status = "fail" THEN [status |-> "RuntimeError"]
        ELSE [status |-> "ok",
              meta |-> [id |-> ClipId(checksum), uri |-> f.name, source |-> "library",
                        duration |-> IF probe.duration = "none" THEN NaN
                                     ELSE F(ParseFloat(probe.duration)),
                        checksum |-> checksum],
              emb |-> embed_keyframes(model, f.bytes)]

RECURSIVE Processed(_, _)
\* the (meta, emb) pairs main() collects, files that raise left out
Processed(model, paths) ==
    IF paths = <<>> THEN <<>>
    ELSE LET r == process_clip(model, Head(paths))
         IN  (IF r.status = "ok" THEN <<r>> ELSE <<>>) \o Processed(model, Tail(paths))

\* [r["id"] for r in rows]
RowIds(rows) == [i \in 1..Len(rows) |-> rows[i].id]

BulkFaults == {"none", "parquet", "npsave", "json"}

\* main(): crawl, process every file, then write the three artifacts
BulkIngest(S, model, fault) ==
    LET done == Processed(model, SortedByName(S))
        rows == [i \in 1..Len(done) |-> done[i].meta]
        embs == [i \in 1..Len(done) |-> done[i].emb]
        vs   == NpVstackAll(embs)
    IN  /\ UNCHANGED <<df, vecs, ids>>
        /\ UNCHANGED <<matchVars, raceVars, edlVars>>
        /\ fault # "none" => nfaults < MaxFaults
        /\ nfaults' = IF fault # "none" /\ rows # <<>> THEN nfaults + 1 ELSE nfaults
        /\ IF rows = <<>>
           THEN /\ UNCHANGED <<diskTable, diskVecs, diskIds>>
                /\ last' = [op |-> "bulk", status |-> "nothing"]
           ELSE IF vs.status # "ok"
           THEN \* df.to_parquet ran before np.vstack raised
                /\ Persist(IF fault = "parquet" THEN "parquet" ELSE "npsave",
                           rows, vs.value, RowIds(rows))
                /\ last' = [op |-> "bulk",
                            status |-> IF fault = "parquet" THEN "OSError" ELSE "ValueError"]
           ELSE /\ Persist(fault, rows, vs.value, RowIds(rows))
                /\ last' = [op |-> "bulk",
                            status |-> IF fault = "none" THEN "ok" ELSE "OSError"]

----------------------------------------------------------------------------
(* Visual plans: core/planning.py *)

\* item.visual_plan before "Plan Visual" was clicked
NoPlan == [status |-> "none"]

MIN_SCENE_DURATION_S == 40
MAX_SCENE_DURATION_S == 80

Min(a, b) == IF a < b THEN a ELSE b
Max(a, b) == IF a > b THEN a ELSE b

\* what the LLM may answer: a VisualPlanSchema, durations in tenths of a second
Responses ==
    [status : {"ok"}, primary_subject : {"", "heart"}, action : {"", "beating"},
     keywords : {<<>>, <<"cell", "blood">>}, duration_s : {20, 50, 80, 120}]

\* the request raised, or the answer did not validate
ErrorResponse == [status |-> "error"]

\* the plan used when the request or the validation raised
FallbackPlan ==
    [primary_subject |-> "medical subject", action |-> "explain mechanism",
     keywords |-> <<"mechanism">>, duration_s |-> 60]

\* the answered duration taken as it is
ClampDurationNone(d) == d

\* max(4.0, min(8.0, float(parsed.duration_s)))
ClampDuration(d) == Max(MIN_SCENE_DURATION_S, Min(MAX_SCENE_DURATION_S, d))

\* plan_visual_for_sentence: resp is the parsed answer, or ErrorResponse
plan_visual_for_sentence(resp) ==
    LET parsed == IF resp.status = "error" THEN FallbackPlan ELSE resp
    IN  [status |-> "plan",
         primary_subject |-> parsed.primary_subject, action |-> parsed.action,
         keywords |-> parsed.keywords, duration_s |-> ClampDuration(parsed.duration_s)]

\* "Plan Visual": item.visual_plan = asdict(plan_visual_for_sentence(...))
PlanVisual(resp) ==
    /\ plan' = plan_visual_for_sentence(resp)
    /\ call' = NoCall /\ prev' = <<>>
    /\ last' = [op |-> "plan_visual", status |-> "ok"]
    /\ UNCHANGED <<storeVars, nfaults, tieOrder, accepted, cache, loads,
                     raceVars, edlVars>>

----------------------------------------------------------------------------
(* Query composer and text encoder: core/match.py *)

RECURSIVE Join(_)
\* " ".join(keywords)
Join(ws) == IF ws = <<>> THEN ""
            ELSE IF Len(ws) = 1 THEN ws[1]
            ELSE ws[1] \o " " \o Join(Tail(ws))

\* a fallback part that carries the weight of a subject
FallbackQueryLight == <<[text |-> "medical animation", w |-> 45]>>

\* the fallback part of the composer
FallbackQuery == <<[text |-> "medical animation", w |-> 100]>>

\* a composer that appends the keywords part before the action part
QueriesKeywordsFirst(vp) ==
    LET parts == (IF vp.primary_subject # "" THEN <<[text |-> vp.primary_subject, w |-> 45]>> ELSE <<>>)
              \o (IF vp.keywords # <<>> THEN <<[text |-> Join(vp.keywords), w |-> 20]>> ELSE <<>>)
              \o (IF vp.action # "" THEN <<[text |-> vp.action, w |-> 35]>> ELSE <<>>)
    IN  IF parts # <<>> THEN parts ELSE FallbackQuery

\* _compositional_queries: (text, weight) parts, weights in hundredths
compositional_queries(vp) ==
    LET parts == (IF vp.primary_subject # "" THEN <<[text |-> vp.primary_subject, w |-> 45]>> ELSE <<>>)
              \o (IF vp.action # "" THEN <<[text |-> vp.action, w |-> 35]>> ELSE <<>>)
              \o (IF vp.keywords # <<>> THEN <<[text |-> Join(vp.keywords), w |-> 20]>> ELSE <<>>)
    IN  IF parts # <<>> THEN parts ELSE FallbackQuery

\* weights / 1.0: the weights left as they are
RawWeights(queries) == [i \in 1..Len(queries) |-> (queries[i].w * One) \div 100]

\* weights / (weights.sum() or 1.0), as fixed point fractions of One
NormalizedWeights(queries) ==
    LET sum   == SumSeq([i \in 1..Len(queries) |-> queries[i].w])
        total == IF sum # 0 THEN sum ELSE 100
    IN  [i \in 1..Len(queries) |-> (queries[i].w * One) \div total]

\* model.encode_text for one text, before normalisation
EncodeText(text) ==
    CASE text = "heart" -> <<3, 4>>
      [] text = "beating" -> <<4, 3>>
      [] text = "cell blood" -> <<5, 0>>
      [] text = "medical animation" -> <<0, 7>>
      [] text = "medical subject" -> <<5, 12>>
      [] text = "explain mechanism" -> <<12, 5>>
      [] text = "mechanism" -> <<8, 6>>

\* _encode_texts: one unit-length row per text
encode_texts(texts) == [i \in 1..Len(texts) |-> Normalize(EncodeText(texts[i]))]

\* what the encoder may do in one call: work, fail to build the model (no
\* weights, no memory), or fail while it tokenizes and encodes
EncoderFaults == {"none", "load", "encode"}

\* a cache that never answers
CacheMiss(c) == FALSE

\* lru_cache(maxsize=1) on a call that always has the same arguments: a hit
\* once a model is stored
CacheHit(c) == c = "model"

\* _load_text_model(): a stored model is returned as it is, a build that
\* raises stores nothing
load_text_model(c, fault) ==
    IF CacheHit(c) THEN [status |-> "ok", cache |-> c, built |-> 0]
    ELSE IF fault = "load" THEN [status |-> "LoadError", cache |-> c, built |-> 0]
    ELSE [status |-> "ok", cache |-> "model", built |-> 1]

\* one _encode_texts call: the model first, then the tokenizer and encode_text
EncoderCall(c, fault) ==
    LET m == load_text_model(c, fault)
    IN  IF m.status = "ok" /\ fault = "encode" THEN [m EXCEPT !.status = "EncodeError"]
        ELSE m

\* q_vec / (np.linalg.norm(q_vec) + 1e-9): a zero vector stays zero
NormalizeEps(v) == IF Norm(v) = 0 THEN v ELSE Normalize(v)

\* the query vector of steps 1 of clip_match: weighted sum, normalised
QueryVector(queries) ==
    LET weights   == NormalizedWeights(queries)
        text_embs == encode_texts([i \in 1..Len(queries) |-> queries[i].text])
        scaled    == [i \in 1..Len(queries) |->
                        [j \in 1..Len(text_embs[i]) |-> (weights[i] * text_embs[i][j]) \div One]]
    IN  NormalizeEps(VecSum(scaled))

----------------------------------------------------------------------------
(* Similarity ranker: core/match.py *)

\* a score with the penalty added instead of subtracted
PenalizeUp(sim, pen) == sim + pen \div 20

\* sims - 0.05 * pen
Penalize(sim, pen) == sim - pen \div 20

Abs(x) == IF x < 0 THEN 0 - x ELSE x

\* np.clip(np.abs((dur - vp_d) / vp_d), 0.0, 1.0) for one clip
Penalty(dur, vp_d) == Min(One, (Abs(dur - vp_d) * One) \div vp_d)

\* step 3 for one clip: a NaN duration makes the score NaN
Adjusted(sim, duration, vp) ==
    IF vp.duration_s = 0 THEN F(sim)
    ELSE IF duration.nan THEN NaN
    ELSE F(Penalize(sim, Penalty(duration.v, Max(vp.duration_s, 1))))

\* float <
PyLt(a, b) == ~a.nan /\ ~b.nan /\ a.v < b.v

\* equal keys ordered by the other end of the array on every second call
TieBeforeUnstable(i, j) == IF prev = <<>> THEN i < j ELSE i > j

\* the order np.argsort gives two equal keys: fixed by the build
TieBefore(i, j) == IF tieOrder = "ascending" THEN i < j ELSE i > j

\* the order of np.argsort(sims): smaller score first, NaN last
ArgBeforeAscending(sims, i, j) ==
    IF sims[i].nan /\ sims[j].nan THEN TieBefore(i, j)
    ELSE IF sims[i].nan THEN FALSE
    ELSE IF sims[j].nan THEN TRUE
    ELSE IF sims[i].v # sims[j].v THEN sims[i].v < sims[j].v
    ELSE TieBefore(i, j)

\* row i comes before row j in np.argsort(-sims): larger score first, NaN last
ArgBefore(sims, i, j) ==
    IF sims[i].nan /\ sims[j].nan THEN TieBefore(i, j)
    ELSE IF sims[i].nan THEN FALSE
    ELSE IF sims[j].nan THEN TRUE
    ELSE IF sims[i].v # sims[j].v THEN sims[i].v > sims[j].v
    ELSE TieBefore(i, j)

RECURSIVE ArgsortOf(_, _)
ArgsortOf(sims, S) ==
    IF S = {} THEN <<>>
    ELSE LET i == CHOOSE x \in S : \A y \in S \ {x} : ArgBefore(sims, x, y)
         IN  <<i>> \o ArgsortOf(sims, S \ {i})

\* np.argsort(-sims)
Argsort(sims) == ArgsortOf(sims, 1..Len(sims))

Reverse(s) == [i \in 1..Len(s) |-> s[Len(s) + 1 - i]]

RECURSIVE RunEnd(_, _, _)
\* count_run of list.sort: the last index of the run that starts the list
RunEnd(a, i, desc) ==
    IF i >= Len(a) THEN i
    ELSE IF PyLt(a[i + 1].similarity, a[i].similarity) = desc THEN RunEnd(a, i + 1, desc)
    ELSE i

RECURSIVE InsertPos(_, _, _, _)
\* the bisection of binarysort: where pivot goes among a[l+1..r]
InsertPos(a, pivot, l, r) ==
    IF l >= r THEN l
    ELSE LET p == l + (r - l) \div 2
         IN  IF PyLt(pivot.similarity, a[p + 1].similarity)
             THEN InsertPos(a, pivot, l, p)
             ELSE InsertPos(a, pivot, p + 1, r)

RECURSIVE BinarySort(_, _)
\* binarysort: a[1..start] is sorted, insert the elements after it one by one
BinarySort(a, start) ==
    IF start >= Len(a) THEN a
    ELSE LET pivot == a[start + 1]
             l     == InsertPos(a, pivot, 0, start)
         IN  BinarySort(SubSeq(a, 1, l) \o <<pivot>> \o SubSeq(a, l + 1, start)
                          \o SubSeq(a, start + 2, Len(a)), start + 1)

\* list.sort on a short list: the first run (reversed when descending), then binarysort
ListSort(a) ==
    IF Len(a) < 2 THEN a
    ELSE LET desc == PyLt(a[2].similarity, a[1].similarity)
             n    == RunEnd(a, 1, desc)
             run  == IF desc THEN Reverse(SubSeq(a, 1, n)) \o SubSeq(a, n + 1, Len(a)) ELSE a
         IN  BinarySort(run, n)

\* picks.sort(key=lambda t: t.similarity) without reverse=True
SortBySimilarityAsc(picks) == ListSort(picks)

\* an ascending sort read backwards: equal Takes come out in reverse order
SortAscendingReversed(picks) == Reverse(ListSort(picks))

\* picks.sort(key=lambda t: t.similarity, reverse=True)
SortBySimilarityDesc(picks) == Reverse(ListSort(Reverse(picks)))

\* a truncation that keeps one Take too many
TopKOffByOne(picks, k) == SubSeq(picks, 1, Min(k + 1, Len(picks)))

\* picks[:k]
TopK(picks, k) == SubSeq(picks, 1, Min(k, Len(picks)))

\* one Take: the library row shown to the editor with its score
MakeTake(row, sim) ==
    [source |-> "library", clip_id |-> row.id, clip_uri |-> row.uri,
     duration |-> IF ~row.duration.nan /\ row.duration.v = 0 THEN F(0) ELSE row.duration,
     similarity |-> sim, metadata |-> row]

\* a handler that answers an exception of the encoder with no Take
SwallowEncoderError(e) == [status |-> "ok", top_idx |-> <<>>, takes |-> <<>>]

\* clip_match has no try block: what _encode_texts raises leaves it as it is
Propagate(e) == [status |-> e]

\* a product that refuses a matrix without rows
MatmulStatusNonEmpty(m, q_vec) ==
    IF m.rows = <<>> THEN "EmptyLibrary"
    ELSE IF m.ncols # Len(q_vec) THEN "ValueError" ELSE "ok"

\* vecs @ q_vec: ValueError when the column counts differ; a matrix of shape
\* (0, D) gives an empty score array
MatmulStatus(m, q_vec) == IF m.ncols # Len(q_vec) THEN "ValueError" ELSE "ok"

\* a ranking that sorts the table it was handed by score
TableSortedInPlace(t, top_idx) == [n \in 1..Len(top_idx) |-> t[top_idx[n]]]

\* the caller's table after clip_match: to_numpy(dtype=...) and iloc[i] copy
\* what they read
TableAfterMatch(t, top_idx) == t

\* the length of sims - 0.05 * pen for R scores and T durations: numpy
\* stretches an array of length 1 to the other length, and raises ValueError
\* (here -1) for two other lengths that differ
BroadcastLen(R, T) ==
    IF R = T THEN R ELSE IF R = 1 THEN T ELSE IF T = 1 THEN R ELSE 0 - 1

\* clip_match(vp, df, vecs, ids, k); enc is how the _encode_texts call ended
clip_match(vp, t, m, idl, k, enc) ==
    LET queries == compositional_queries(vp)
        q_vec   == QueryVector(queries)
        R       == Len(m.rows)
        T       == Len(t)
        n       == IF vp.duration_s = 0 THEN R ELSE BroadcastLen(R, T)
        raw     == [i \in 1..R |-> Dot(m.rows[i], q_vec) \div One]
        sims    == [i \in 1..n |-> Adjusted(raw[IF R = 1 THEN 1 ELSE i],
                                            t[IF T = 1 THEN 1 ELSE i].duration, vp)]
        top_idx == SubSeq(Argsort(sims), 1, Min(Max(k * 4, k), Len(sims)))
        picks   == [p \in 1..Len(top_idx) |-> MakeTake(t[top_idx[p]], sims[top_idx[p]])]
    IN  IF enc # "ok" THEN Propagate(enc)
        ELSE IF MatmulStatus(m, q_vec) # "ok" THEN [status |-> MatmulStatus(m, q_vec)]
        ELSE IF n < 0 THEN [status |-> "ValueError"]
        ELSE IF \E p \in 1..Len(top_idx) : top_idx[p] > T THEN [status |-> "IndexError"]
        ELSE [status |-> "ok", vp |-> vp, k |-> k, queries |-> queries,
              weights |-> NormalizedWeights(queries),
              text_embs |-> encode_texts([i \in 1..Len(queries) |-> queries[i].text]),
              q_vec |-> q_vec,
              raw |-> raw, sims |-> sims, top_idx |-> top_idx,
              takes |-> TopK(SortBySimilarityDesc(picks), k)]

\* the editor's match column: clip_match on the stored plan
\* (streamlit_app.py:215-216); _encode_texts is called once in it
ClipMatch(k, fault) ==
    LET enc == EncoderCall(cache, fault)
    IN  /\ plan # NoPlan
        /\ fault = "load" => ~CacheHit(cache)
        /\ call' = clip_match(plan, df, vecs, ids, k, enc.status)
        /\ cache' = enc.cache
        /\ loads' = loads + enc.built
        /\ prev' = IF call.status = "ok" /\ call.k = k /\ call'.status = "ok"
                   THEN <<call.takes, call.top_idx>> ELSE <<>>
        /\ last' = [op |-> "clip_match", status |-> call'.status,
                    encoder |-> enc.status, encoder_calls |-> 1]
        /\ df' = IF call'.status = "ok" THEN TableAfterMatch(df, call'.top_idx) ELSE df
        /\ ItemUntouched
        /\ UNCHANGED <<diskTable, diskVecs, diskIds, vecs, ids, nfaults, plan, tieOrder,
                     raceVars, edlVars>>

\* the slider "Min similarity": its lowest value and its default, 0.28
Thresholds == {0, 280}

RECURSIVE AboveThreshold(_, _)
\* [t for t in takes if t.similarity >= THRESH]
AboveThreshold(takes, th) ==
    IF takes = <<>> THEN <<>>
    ELSE (IF ~PyLt(Head(takes).similarity, F(th)) /\ ~Head(takes).similarity.nan
          THEN <<Head(takes)>> ELSE <<>>) \o AboveThreshold(Tail(takes), th)

\* dataclasses.asdict(t): a new dict with a copy of every field of the Take
asdict(t) ==
    [source |-> t.source, clip_id |-> t.clip_id, clip_uri |-> t.clip_uri,
     duration |-> t.duration, similarity |-> t.similarity, metadata |-> t.metadata]

\* "Accept take" next to the i-th Take shown (streamlit_app.py:234-236)
AcceptTake(i, th) ==
    LET shown == IF call.status = "ok" THEN AboveThreshold(call.takes, th) ELSE <<>>
    IN  /\ i \in 1..Len(shown)
        /\ accepted' = asdict(shown[i])
        /\ last' = [op |-> "accept", status |-> "ok"]
        /\ UNCHANGED <<storeVars, nfaults, plan, call, prev, tieOrder, cache, loads,
                     raceVars, edlVars>>

----------------------------------------------------------------------------
(* The store on its own: loads, appends and bulk ingestions, with the
   failures the environment can inject *)

\* the editor starts on an index that holds no clip yet and loads it
Init ==
    /\ diskTable = <<>>
    /\ diskVecs = EmptyMatrix
    /\ diskIds = <<>>
    /\ df = <<>>
    /\ vecs = EmptyMatrix
    /\ ids = <<>>
    /\ last = [op |-> "start", status |-> "ok"]
    /\ nfaults = 0
    /\ plan = NoPlan
    /\ call = NoCall
    /\ prev = <<>>
    /\ tieOrder = "ascending"
    /\ accepted = NoTake
    /\ cache = "empty"
    /\ loads = 0
    /\ writers = <<>>
    /\ threads = <<>>
    /\ sentences = <<>>
    /\ edl = NoEdl

vars == <<diskTable, diskVecs, diskIds, df, vecs, ids, last, nfaults, plan, call, prev,
          tieOrder, accepted, cache, loads, writers, threads, sentences, edl>>

\* the files the store is exercised with
StoreFiles == {f \in Files : f.name \in {"a.mp4", "copy.mp4", "z.mp4", "x.mp4"}}

FileSets == {S \in SUBSET StoreFiles : Cardinality(S) <= MaxFiles}

\* no I/O error: the only failures are the ones the code itself produces
Next ==
    \/ LoadIndex
    \/ \E f \in StoreFiles, fault \in {"none", "embed"} : IngestOne(f, fault)
    \/ \E S \in FileSets, model \in Models : BulkIngest(S, model, "none")

Spec == Init /\ [][Next]_vars

\* the same operations when a write may fail (disk full, the run stopped)
NextCrash ==
    \/ LoadIndex
    \/ \E f \in StoreFiles, fault \in Faults : IngestOne(f, fault)
    \/ \E S \in FileSets, model \in Models, fault \in BulkFaults : BulkIngest(S, model, fault)

SpecCrash == Init /\ [][NextCrash]_vars

----------------------------------------------------------------------------
(* The editor: planning, matching and appending on a library made by the
   bulk script with the default model *)

\* the files the ranked libraries are made of
MatchFiles == {f \in Files : f.name \in {"a.mp4", "b.mp4", "c.mp4", "z.mp4"}}

\* the files the editor appends
GeneratedFiles == {f \in Files : f.name \in {"a.mp4", "z.mp4"}}

\* the index main() wrote for the crawled files S
BulkIndex(S) ==
    LET done == Processed("ViT-B-32", SortedByName(S))
    IN  [table |-> [i \in 1..Len(done) |-> done[i].meta],
         matrix |-> [ncols |-> 2, rows |-> [i \in 1..Len(done) |-> done[i].emb]],
         idlist |-> [i \in 1..Len(done) |-> done[i].meta.id]]

\* the editor has loaded an index written by one bulk ingestion
InitMatch ==
    \E S \in {X \in SUBSET MatchFiles : Cardinality(X) <= MaxLib} :
        /\ diskTable = BulkIndex(S).table
        /\ diskVecs = BulkIndex(S).matrix
        /\ diskIds = BulkIndex(S).idlist
        /\ df = diskTable
        /\ vecs = diskVecs
        /\ ids = diskIds
        /\ last = [op |-> "load_index", status |-> "ok"]
        /\ nfaults = 0
        /\ plan = NoPlan
        /\ call = NoCall
        /\ prev = <<>>
        /\ tieOrder \in {"ascending", "descending"}
        /\ accepted = NoTake
        /\ cache = "empty"
        /\ loads = 0
        /\ writers = <<>>
        /\ threads = <<>>
        /\ sentences = <<>>
        /\ edl = NoEdl

NextMatch ==
    \/ \E resp \in Responses \cup {ErrorResponse} : PlanVisual(resp)
    \/ \E k \in 0..MaxK, fault \in EncoderFaults : ClipMatch(k, fault)
    \/ \E f \in GeneratedFiles : Len(df) < MaxLib /\ IngestOne(f, "none")

SpecMatch == InitMatch /\ [][NextMatch]_vars

\* the files of the libraries that are larger than the ranker's pool of 4k rows
RankFiles == {f \in Files : f.name \in {"a.mp4", "b.mp4", "c.mp4", "d.mp4", "e.mp4", "z.mp4"}}

\* the editor has loaded an index written by one bulk ingestion of RankFiles
InitRank ==
    \E S \in {X \in SUBSET RankFiles : Cardinality(X) <= MaxRank} :
        /\ diskTable = BulkIndex(S).table
        /\ diskVecs = BulkIndex(S).matrix
        /\ diskIds = BulkIndex(S).idlist
        /\ df = diskTable
        /\ vecs = diskVecs
        /\ ids = diskIds
        /\ last = [op |-> "load_index", status |-> "ok"]
        /\ nfaults = 0
        /\ plan = NoPlan
        /\ call = NoCall
        /\ prev = <<>>
        /\ tieOrder \in {"ascending", "descending"}
        /\ accepted = NoTake
        /\ cache = "empty"
        /\ loads = 0
        /\ writers = <<>>
        /\ threads = <<>>
        /\ sentences = <<>>
        /\ edl = NoEdl

\* the answers the larger libraries are ranked for
RankResponses ==
    {r \in Responses : r.primary_subject \in {"", "heart"} /\ r.action = "beating"
                         /\ r.keywords = <<>> /\ r.duration_s \in {50, 80}}

\* planning and matching only
NextRank ==
    \/ \E resp \in RankResponses : PlanVisual(resp)
    \/ \E k \in 1..MaxK : ClipMatch(k, "none")

SpecRank == InitRank /\ [][NextRank]_vars

----------------------------------------------------------------------------
(* Two editor sessions that append at once: each runs ingest_one on the
   handles it loaded, and the three writes of the two calls interleave *)

\* the two sessions
Writers == {1, 2}

\* the files the sessions generate
RaceFiles == {f \in Files : f.name \in {"b.mp4", "c.mp4"}}

\* a writer that reads the persisted index again when it starts
WriterBaseReloaded == <<diskTable, diskVecs, diskIds>>

\* the df, vecs and ids a session hands to ingest_one: what it loaded when
\* its script run began (streamlit_app.py:32, 252)
WriterBase == <<df, vecs, ids>>

\* ingest_one.py:15-43: the new table, matrix and id list, built in memory
BuildAppend(w, f) ==
    LET row == OneRow(f)
    IN  /\ writers[w].pc = "idle"
        /\ NpVstack(WriterBase[2], embed_keyframes("ViT-B-32", f.bytes)).status = "ok"
        /\ writers' = [writers EXCEPT ![w] =
              [pc |-> "built", file |-> f,
               df2 |-> PdConcat(WriterBase[1], row),
               vecs2 |-> NpVstack(WriterBase[2], embed_keyframes("ViT-B-32", f.bytes)).value,
               ids2 |-> AppendId(WriterBase[3], row)]]
        /\ last' = [op |-> "build_append", status |-> "ok"]
        /\ UNCHANGED <<storeVars, nfaults, matchVars, threads, edlVars>>

\* ingest_one.py:45: df2.to_parquet("data/library.parquet")
WriteParquet(w) ==
    /\ writers[w].pc = "built"
    /\ diskTable' = writers[w].df2
    /\ writers' = [writers EXCEPT ![w].pc = "parquet"]
    /\ last' = [op |-> "to_parquet", status |-> "ok"]
    /\ UNCHANGED <<diskVecs, diskIds, df, vecs, ids, nfaults, matchVars, threads, edlVars>>

\* ingest_one.py:46: np.save("data/vectors.npy", vecs2)
WriteNpy(w) ==
    /\ writers[w].pc = "parquet"
    /\ diskVecs' = writers[w].vecs2
    /\ writers' = [writers EXCEPT ![w].pc = "npy"]
    /\ last' = [op |-> "np_save", status |-> "ok"]
    /\ UNCHANGED <<diskTable, diskIds, df, vecs, ids, nfaults, matchVars, threads, edlVars>>

\* ingest_one.py:47: json.dump(ids2, open("data/id_index.json", "w"))
WriteJson(w) ==
    /\ writers[w].pc = "npy"
    /\ diskIds' = writers[w].ids2
    /\ writers' = [writers EXCEPT ![w].pc = "done"]
    /\ last' = [op |-> "json_dump", status |-> "ok"]
    /\ UNCHANGED <<diskTable, diskVecs, df, vecs, ids, nfaults, matchVars, threads, edlVars>>

\* both sessions have loaded the index one bulk ingestion wrote
InitRace ==
    \E S \in SUBSET {f \in Files : f.name \in {"a.mp4", "z.mp4"}} :
        /\ diskTable = BulkIndex(S).table
        /\ diskVecs = BulkIndex(S).matrix
        /\ diskIds = BulkIndex(S).idlist
        /\ df = diskTable
        /\ vecs = diskVecs
        /\ ids = diskIds
        /\ last = [op |-> "load_index", status |-> "ok"]
        /\ nfaults = 0
        /\ plan = NoPlan
        /\ call = NoCall
        /\ prev = <<>>
        /\ tieOrder = "ascending"
        /\ accepted = NoTake
        /\ cache = "empty"
        /\ loads = 0
        /\ writers = [w \in Writers |-> [pc |-> "idle"]]
        /\ threads = <<>>
        /\ sentences = <<>>
        /\ edl = NoEdl

NextRace ==
    \/ \E w \in Writers, f \in RaceFiles : BuildAppend(w, f)
    \/ \E w \in Writers : WriteParquet(w)
    \/ \E w \in Writers : WriteNpy(w)
    \/ \E w \in Writers : WriteJson(w)

SpecRace == InitRace /\ [][NextRace]_vars

----------------------------------------------------------------------------
(* Two threads that call the encoder at once: _load_text_model under
   lru_cache, step by step *)

Threads == {1, 2}

\* a cache that takes the model as soon as it is created
PublishableEarly(build) == build \in {"created", "ready"}

\* lru_cache stores what the wrapped function returned: the model after
\* create_model_and_transforms, get_tokenizer and model.eval()
Publishable(build) == build = "ready"

\* the model the cache holds: the one built by the thread that stored it
CachedBuild == threads[CHOOSE s \in Threads : threads[s].stored].build

\* the lru_cache wrapper looks the key up: a hit returns the stored model,
\* a miss calls _load_text_model without a lock
Lookup(t) ==
    /\ threads[t].pc = "idle"
    /\ IF CacheHit(cache)
       THEN threads' = [threads EXCEPT ![t].pc = "done", ![t].got = CachedBuild]
       ELSE threads' = [threads EXCEPT ![t].pc = "loading"]
    /\ last' = [op |-> "lookup", status |-> "ok"]
    /\ UNCHANGED <<storeVars, nfaults, plan, call, prev, tieOrder, accepted, cache, loads,
                   writers, edlVars>>

\* match.py:15-16: create_model_and_transforms and get_tokenizer
CreateModel(t) ==
    /\ threads[t].pc = "loading"
    /\ threads[t].build = "none"
    /\ threads' = [threads EXCEPT ![t].build = "created"]
    /\ loads' = loads + 1
    /\ last' = [op |-> "create_model", status |-> "ok"]
    /\ UNCHANGED <<storeVars, nfaults, plan, call, prev, tieOrder, accepted, cache,
                   writers, edlVars>>

\* match.py:17: model.eval()
EvalModel(t) ==
    /\ threads[t].pc = "loading"
    /\ threads[t].build = "created"
    /\ threads' = [threads EXCEPT ![t].build = "ready"]
    /\ last' = [op |-> "model_eval", status |-> "ok"]
    /\ UNCHANGED <<storeVars, nfaults, plan, call, prev, tieOrder, accepted, cache, loads,
                   writers, edlVars>>

\* match.py:18 and the wrapper after it: the result is stored unless the key
\* was stored while the function ran, and the caller gets its own result
ReturnModel(t) ==
    /\ threads[t].pc = "loading"
    /\ Publishable(threads[t].build)
    /\ threads' = [threads EXCEPT ![t].pc = "done", ![t].got = threads[t].build,
                                  ![t].stored = ~CacheHit(cache)]
    /\ cache' = "model"
    /\ last' = [op |-> "return_model", status |-> "ok"]
    /\ UNCHANGED <<storeVars, nfaults, plan, call, prev, tieOrder, accepted, loads,
                   writers, edlVars>>

\* the thread makes another encoder call
CallAgain(t) ==
    /\ threads[t].pc = "done"
    /\ threads[t].n < MaxCalls
    /\ threads' = [threads EXCEPT ![t].pc = "idle", ![t].n = threads[t].n + 1,
                                  ![t].got = "none"]
    /\ last' = [op |-> "call_again", status |-> "ok"]
    /\ UNCHANGED <<storeVars, nfaults, plan, call, prev, tieOrder, accepted, cache, loads,
                   writers, edlVars>>

\* a fresh process: nothing cached, both threads about to make their first call
InitLoad ==
    /\ diskTable = <<>>
    /\ diskVecs = EmptyMatrix
    /\ diskIds = <<>>
    /\ df = <<>>
    /\ vecs = EmptyMatrix
    /\ ids = <<>>
    /\ last = [op |-> "start", status |-> "ok"]
    /\ nfaults = 0
    /\ plan = NoPlan
    /\ call = NoCall
    /\ prev = <<>>
    /\ tieOrder = "ascending"
    /\ accepted = NoTake
    /\ cache = "empty"
    /\ loads = 0
    /\ writers = <<>>
    /\ threads = [t \in Threads |->
                    [pc |-> "idle", n |-> 1, build |-> "none", got |-> "none", stored |-> FALSE]]
    /\ sentences = <<>>
    /\ edl = NoEdl

NextLoad ==
    \/ \E t \in Threads : Lookup(t)
    \/ \E t \in Threads : CreateModel(t)
    \/ \E t \in Threads : EvalModel(t)
    \/ \E t \in Threads : ReturnModel(t)
    \/ \E t \in Threads : CallAgain(t)

SpecLoad == InitLoad /\ [][NextLoad]_vars

----------------------------------------------------------------------------
(* The editor next to the bulk script: the script is run from a shell while
   the editor, on each run of its own script, loads what is on disk *)

\* the files the script is run over
ReloadFiles == {f \in Files : f.name \in {"a.mp4", "b.mp4", "z.mp4"}}

\* the answers the editor plans with here
ReloadResponses ==
    {r \in Responses : r.primary_subject = "heart" /\ r.action = ""
                         /\ r.keywords = <<>> /\ r.duration_s \in {50, 80}}

NextReload ==
    \/ \E S \in SUBSET ReloadFiles, model \in Models :
          Cardinality(S) <= MaxFiles /\ BulkIngest(S, model, "none")
    \/ LoadIndex
    \/ \E resp \in ReloadResponses : PlanVisual(resp)
    \/ \E k \in 1..MaxK : ClipMatch(k, "none")

SpecReload == Init /\ [][NextReload]_vars

\* the answers the accepting editor plans with
AcceptResponses ==
    {r \in Responses : r.primary_subject = "heart" /\ r.keywords = <<>>
                         /\ r.duration_s \in {50, 120}}

\* the editor that also accepts takes and reloads the index
NextAccept ==
    \/ \E resp \in AcceptResponses : PlanVisual(resp)
    \/ \E k \in 1..MaxK : ClipMatch(k, "none")
    \/ \E i \in 1..MaxK, th \in Thresholds : AcceptTake(i, th)
    \/ \E f \in GeneratedFiles : Len(df) < MaxLib /\ IngestOne(f, "none")
    \/ LoadIndex

SpecAccept == InitMatch /\ [][NextAccept]_vars

----------------------------------------------------------------------------
(* The edit decision list: core/edl.py, core/tts.py and the script and
   the buttons of streamlit_app.py that fill st.session_state["sentences"] *)

\* str(n) for n >= 0, one character per element
DigitChar(d) == CASE d = 0 -> "0" [] d = 1 -> "1" [] d = 2 -> "2" [] d = 3 -> "3"
                  [] d = 4 -> "4" [] d = 5 -> "5" [] d = 6 -> "6" [] d = 7 -> "7"
                  [] d = 8 -> "8" [] d = 9 -> "9"

RECURSIVE Str(_)
Str(n) == IF n < 10 THEN <<DigitChar(n)>> ELSE Str(n \div 10) \o <<DigitChar(n % 10)>>

\* f"scene-{i}"
SceneKey(i) == <<"s", "c", "e", "n", "e", "-">> \o Str(i)

\* f"scene-{i}-s{j}"
SentenceId(i, j) == SceneKey(i) \o <<"-", "s">> \o Str(j)

RECURSIVE LastPart(_)
\* k.split("-")[-1]: what follows the last "-"
LastPart(k) ==
    IF k = <<>> THEN <<>>
    ELSE IF \E p \in 2..Len(k) : k[p] = "-" THEN LastPart(Tail(k))
    ELSE IF Head(k) = "-" THEN Tail(k)
    ELSE k

\* ord(c) of the characters the keys are written with
Ord(c) == CASE c = "-" -> 45 [] c = "0" -> 48 [] c = "1" -> 49 [] c = "2" -> 50
            [] c = "3" -> 51 [] c = "4" -> 52 [] c = "5" -> 53 [] c = "6" -> 54
            [] c = "7" -> 55 [] c = "8" -> 56 [] c = "9" -> 57 [] c = "c" -> 99
            [] c = "e" -> 101 [] c = "n" -> 110 [] c = "s" -> 115

RECURSIVE ParseInt(_, _)
\* int(s) of a string of decimal digits, acc the value read so far
ParseInt(s, acc) ==
    IF s = <<>> THEN acc ELSE ParseInt(Tail(s), acc * 10 + (Ord(Head(s)) - Ord("0")))

\* key=lambda k: int(k.split("-")[-1])
SceneIndex(k) == ParseInt(LastPart(k), 0)

RECURSIVE StrLt(_, _)
\* str < str: character by character, a proper prefix first
StrLt(a, b) ==
    IF b = <<>> THEN FALSE
    ELSE IF a = <<>> THEN TRUE
    ELSE IF Head(a) # Head(b) THEN Ord(Head(a)) < Ord(Head(b))
    ELSE StrLt(Tail(a), Tail(b))

\* sorted(keys) without the key function: the keys compared as strings
KeyBeforeLexicographic(a, b) == StrLt(a, b)

\* the order sorted(..., key=...) puts two keys in
KeyBefore(a, b) == SceneIndex(a) < SceneIndex(b)

RECURSIVE ordered_keys(_)
\* sorted(sentences_by_scene.keys(), key=lambda k: int(k.split("-")[-1]))
ordered_keys(S) ==
    IF S = {} THEN <<>>
    ELSE LET first == CHOOSE a \in S : \A b \in S \ {a} : KeyBefore(a, b)
         IN  <<first>> \o ordered_keys(S \ {first})

\* Optional[float]: None, or a float in tenths of a second
None == [none |-> TRUE, v |-> 0]
Float(x) == [none |-> FALSE, v |-> x]

\* a text of n words
Text(n) == [w \in 1..n |-> "word"]

\* SentenceItem(id=f"scene-{i}-s{j}", text=s): every other field None
SentenceItem(id, text) ==
    [id |-> id, text |-> text, tts_path |-> "none", duration_s |-> None,
     accepted_take |-> NoTake]

\* round(len(text.split()) / DEFAULT_WPS, 2) with DEFAULT_WPS = 2.5, in tenths
\* of a second: 0.4 s a word
synth_tts(text) == [path |-> "tts.txt", duration_s |-> Float(Len(text) * 4)]

\* "Generate TTS": item.tts_path = path; item.duration_s = dur
GenerateTts(item) ==
    [item EXCEPT !.tts_path = synth_tts(item.text).path,
                 !.duration_s = synth_tts(item.text).duration_s]

\* "Accept take": item.accepted_take = asdict(t)
AcceptFor(item, t) == [item EXCEPT !.accepted_take = asdict(t)]

\* the library the editor of the list has loaded
EdlFiles == {f \in Files : f.name \in {"a.mp4", "b.mp4"}}

\* the answer the editor of the list has planned a sentence with
EdlResponse ==
    [status |-> "ok", primary_subject |-> "heart", action |-> "", keywords |-> <<>>,
     duration_s |-> 50]

\* the Takes the last clip_match call shows at some position of the slider
ShownTakes ==
    IF call.status # "ok" THEN {}
    ELSE UNION {{AboveThreshold(call.takes, th)[i] :
                    i \in 1..Len(AboveThreshold(call.takes, th))} : th \in Thresholds}

\* bool(x) of an Optional[float] and of an Optional[dict]
TruthyFloat(d) == ~d.none /\ d.v # 0
TruthyTake(t) == t # NoTake

\* a test that only asks for an accepted take
SkippedWithoutTake(item) == ~TruthyTake(item.accepted_take)

\* if not item.accepted_take or not item.duration_s: continue
Skipped(item) == ~TruthyTake(item.accepted_take) \/ ~TruthyFloat(item.duration_s)

\* max(a, b) of Python on floats: a unless b > a
PyMax(a, b) == IF PyLt(a, b) THEN b ELSE a

\* float + float
FloatAdd(a, b) == IF a.nan \/ b.nan THEN NaN ELSE F(a.v + b.v)

RECURSIVE Flatten(_, _)
\* the (key, item) pairs in the order the two loops visit them
Flatten(sents, keys) ==
    IF keys = <<>> THEN <<>>
    ELSE [j \in 1..Len(sents[Head(keys)]) |-> [key |-> Head(keys), item |-> sents[Head(keys)][j]]]
           \o Flatten(sents, Tail(keys))

RECURSIVE EdlLoop(_, _, _)
\* the loop body over what is left to visit, acc the two lists so far
EdlLoop(todo, t_cursor, acc) ==
    IF todo = <<>> THEN acc
    ELSE LET key  == Head(todo).key
             item == Head(todo).item
             v    == item.accepted_take
         IN  IF Skipped(item) THEN EdlLoop(Tail(todo), t_cursor, acc)
             ELSE EdlLoop(Tail(todo),
                          FloatAdd(t_cursor, PyMax(v.duration, F(item.duration_s.v))),
                          [video |-> Append(acc.video,
                                        [scene_key |-> key, sentence_id |-> item.id,
                                         clip_id |-> v.clip_id, uri |-> v.clip_uri,
                                         in |-> F(0), out |-> v.duration, start |-> t_cursor]),
                           audio |-> Append(acc.audio,
                                        [sentence_id |-> item.id, uri |-> item.tts_path,
                                         start |-> t_cursor])])

\* build_edl(sentences_by_scene)
build_edl(sentences_by_scene) ==
    EdlLoop(Flatten(sentences_by_scene, ordered_keys(DOMAIN sentences_by_scene)), F(0), NoEdl)

\* "Build EDL from accepted takes"
BuildEdl ==
    /\ edl' = build_edl(sentences)
    /\ last' = [op |-> "build_edl", status |-> "ok"]
    /\ UNCHANGED <<storeVars, nfaults, matchVars, raceVars, sentences>>

\* how many scenes the scripts have that the editor pastes
SceneCounts == {1, 3, 11}

\* the scenes whose sentences the editor has worked on
EditedScenes == {2, 10}

\* how many words sentence j of scene i has
ScriptWords(i, j) == IF (i + j) % 2 = 0 THEN 5 ELSE 20

\* what the editor may have done to a sentence: narrated it or not, and
\* accepted one of the Takes shown or none
ItemEdits == [tts : BOOLEAN, take : ShownTakes \cup {NoTake}]

\* the item of sentence j of scene i after the edit e
EditedItem(i, j, e) ==
    LET fresh    == SentenceItem(SentenceId(i, j), Text(ScriptWords(i, j)))
        narrated == IF e.tts THEN GenerateTts(fresh) ELSE fresh
    IN  IF e.take = NoTake THEN narrated ELSE AcceptFor(narrated, e.take)

\* "Use this script" on a script of n scenes with per sentences each, then
\* the edits e of the sentences of the edited scenes
SessionSentences(n, per, e) ==
    [key \in {SceneKey(i) : i \in 0..(n - 1)} |->
        LET i == SceneIndex(key)
        IN  [j \in 1..per |->
                IF i \in EditedScenes THEN EditedItem(i, j - 1, e[<<i, j>>])
                ELSE SentenceItem(SentenceId(i, j - 1), Text(ScriptWords(i, j - 1)))]]

\* the editor has loaded the library, pasted a script, matched a sentence
\* with "Top-K matches" at 1
\* and edited the sentences of the edited scenes
InitEdl ==
    \E n \in SceneCounts, per \in 1..MaxItems :
        /\ diskTable = BulkIndex(EdlFiles).table
        /\ diskVecs = BulkIndex(EdlFiles).matrix
        /\ diskIds = BulkIndex(EdlFiles).idlist
        /\ df = diskTable
        /\ vecs = diskVecs
        /\ ids = diskIds
        /\ last = [op |-> "clip_match", status |-> "ok", encoder |-> "ok", encoder_calls |-> 1]
        /\ nfaults = 0
        /\ plan = plan_visual_for_sentence(EdlResponse)
        /\ call = clip_match(plan, df, vecs, ids, 1, "ok")
        /\ prev = <<>>
        /\ tieOrder = "ascending"
        /\ accepted = NoTake
        /\ cache = "model"
        /\ loads = 1
        /\ writers = <<>>
        /\ threads = <<>>
        /\ \E e \in [(EditedScenes \cap 0..(n - 1)) \X (1..per) -> ItemEdits] :
              sentences = SessionSentences(n, per, e)
        /\ edl = NoEdl

NextEdl == BuildEdl

SpecEdl == InitEdl /\ [][NextEdl]_vars

----------------------------------------------------------------------------
(* Properties of the index store *)

\* row i of the table, of the matrix and of the id list describe one clip
Aligned(t, m, i) ==
    /\ Len(t) = Len(m.rows)
    /\ Len(t) = Len(i)
    /\ \A k \in 1..Len(t) : i[k] = t[k].id

NoDuplicate(s) == \A j, k \in 1..Len(s) : s[j] = s[k] => j = k

\* C6: an append whose embedding has another number of columns than the
\* stored matrix fails, and the persisted table, matrix and id list and the
\* caller's handles keep their row counts
C6_DimensionMismatchLeavesStore ==
    [][(last'.op = "ingest_one" /\ last'.embcols # vecs.ncols) =>
          /\ last'.status # "ok"
          /\ Len(diskTable') = Len(diskTable)
          /\ Len(diskVecs'.rows) = Len(diskVecs.rows)
          /\ Len(diskIds') = Len(diskIds)
          /\ Len(df') = Len(df)
          /\ Len(vecs'.rows) = Len(vecs.rows)
          /\ Len(ids') = Len(ids)]_vars

\* an append onto a loaded one-row matrix of 3 columns was refused by vstack
C6_Witness ==
    /\ last.op = "ingest_one"
    /\ last.status = "ValueError"
    /\ last.embcols = 2
    /\ vecs.ncols = 3
    /\ Len(vecs.rows) = 1

\* C7: after any append, also one that fails while persisting, either all
\* three persisted artifacts contain the new row or none of them changed
C7_AppendAllOrNothing ==
    [][last'.op = "ingest_one" =>
          \/ UNCHANGED <<diskTable, diskVecs, diskIds>>
          \/ /\ diskTable' = Append(df, OneRow(last'.file))
             /\ diskVecs'.rows = Append(vecs.rows, embed_keyframes("ViT-B-32", last'.file.bytes))
             /\ diskIds' = Append(ids, OneRow(last'.file).id)]_vars

\* C8: load_index never returns handles whose row counts disagree
C8_LoadRejectsCorruptIndex ==
    (last.op = "load_index" /\ last.status = "ok") =>
        /\ Len(df) = Len(vecs.rows)
        /\ Len(df) = Len(ids)

\* C9: a successful append or bulk ingestion on an aligned index (persisted
\* and in memory) leaves both aligned: equal row counts, ids[i] the id of
\* table row i
C9_RowAlignmentPreserved ==
    [][(/\ Aligned(diskTable, diskVecs, diskIds)
        /\ Aligned(df, vecs, ids)
        /\ last'.op \in {"ingest_one", "bulk"}
        /\ last'.status = "ok") =>
          /\ Aligned(diskTable', diskVecs', diskIds')
          /\ Aligned(df', vecs', ids')]_vars

\* a second successful append: two aligned rows persisted and in memory
C9_Witness ==
    /\ last.op = "ingest_one"
    /\ last.status = "ok"
    /\ Len(diskTable) = 2
    /\ Len(df) = 2
    /\ Aligned(diskTable, diskVecs, diskIds)
    /\ Aligned(df, vecs, ids)

\* C10: each clip id appears at most once in the table and in the id list
C10_IdsUnique ==
    /\ NoDuplicate(RowIds(diskTable))
    /\ NoDuplicate(diskIds)
    /\ NoDuplicate(RowIds(df))
    /\ NoDuplicate(ids)

----------------------------------------------------------------------------
(* Properties of the composer and the ranker *)

\* C1: clip_match returns at most k Takes, exactly min(k, N) for a library
\* of N clips, and with k >= 1 none only when the library is empty
C1_TopKBound ==
    call.status = "ok" =>
        /\ Len(call.takes) <= call.k
        /\ Len(call.takes) = Min(call.k, Len(df))
        /\ (call.k >= 1 /\ call.takes = <<>>) => Len(df) = 0

\* a library larger than k was ranked and cut to k Takes
C1_Witness ==
    /\ call.status = "ok"
    /\ call.k = 2
    /\ Len(df) = 3
    /\ Len(call.takes) = 2

Distance(i) == Abs(df[i].duration.v - call.vp.duration_s)

C4_WeightsSumToOne ==
    call.status = "ok" =>
        LET total == SumSeq([i \in 1..Len(call.queries) |-> call.queries[i].w])
        IN  /\ Len(call.weights) = Len(call.queries)
            /\ \A i \in 1..Len(call.queries) :
                  call.weights[i] = (call.queries[i].w * One) \div total
            /\ SumSeq(call.weights) <= One
            /\ SumSeq(call.weights) > One - Len(call.weights)

\* a plan with a subject and keywords but no action: 0.45 and 0.20 rescaled
C4_Witness ==
    /\ call.status = "ok"
    /\ Len(call.queries) = 2
    /\ call.queries[1].w = 45
    /\ call.queries[2].w = 20
    /\ call.weights[1] > 450

\* nothing to compose a query from
EmptyPlan(vp) == vp.primary_subject = "" /\ vp.action = "" /\ vp.keywords = <<>>

\* C5: a plan with empty subject, action and keywords gives the single part
\* ("medical animation", 1.0), and no plan gives an empty query set
C5_FallbackQuery ==
    call.status = "ok" =>
        /\ Len(call.queries) >= 1
        /\ EmptyPlan(call.vp) =>
              /\ call.queries = <<[text |-> "medical animation", w |-> 100]>>
              /\ call.weights = <<One>>

\* clip_match ran on a plan with nothing in it, against a library with clips
C5_Witness ==
    /\ call.status = "ok"
    /\ EmptyPlan(call.vp)
    /\ Len(call.queries) = 1
    /\ Len(df) >= 1

----------------------------------------------------------------------------
(* Properties of the editor session *)

\* C11: the plan stored for the sentence, and so every plan handed to
\* clip_match, has a duration_s between 4.0 and 8.0 seconds, whether the
\* planner took it from the LLM answer or from the fallback
C11_DurationClamped ==
    /\ plan # NoPlan =>
          plan.duration_s \in MIN_SCENE_DURATION_S..MAX_SCENE_DURATION_S
    /\ call.status = "ok" =>
          /\ call.vp = plan
          /\ call.vp.duration_s \in MIN_SCENE_DURATION_S..MAX_SCENE_DURATION_S

\* clip_match ran on a plan whose answered duration, 2.0 s, was raised to
\* 4.0 s (no answer of Responses is 4.0 s)
C11_Witness ==
    /\ call.status = "ok"
    /\ call.vp.duration_s = MIN_SCENE_DURATION_S
    /\ \A r \in Responses : r.duration_s # MIN_SCENE_DURATION_S
    /\ Len(call.takes) >= 1

\* C12: once a take is accepted for the sentence, appends to the index,
\* reloads of the index and later clip_match calls leave every field of
\* item.accepted_take as it was
C12_AcceptedTakeFrozen ==
    [][(accepted # NoTake /\ last'.op \in {"ingest_one", "load_index", "clip_match"}) =>
          accepted' = accepted]_vars

\* a clip was appended after the take was accepted, and the take is still a
\* library Take with its score
C12_Witness ==
    /\ accepted # NoTake
    /\ last.op = "ingest_one"
    /\ last.status = "ok"
    /\ accepted.source = "library"
    /\ ~accepted.similarity.nan
    /\ \E i \in 1..Len(df) : df[i].source = "comfy"

\* C13: in one process, where calls come one after the other, the text model
\* is built at most once: the first encoder call builds and stores it, and
\* every call after it finds it stored
C13_ModelLoadedOnce ==
    /\ loads <= 1
    /\ loads = 1 <=> cache = "model"
    /\ call.status = "ok" => loads = 1

\* clip_match was called again after a call that had already built the model
C13_Witness ==
    /\ prev # <<>>
    /\ call.status = "ok"
    /\ loads = 1

\* C14: clip_match on a library without clips, its encoder call having
\* worked, returns an empty Take list and raises nothing
C14_EmptyLibraryNoTakes ==
    (last.op = "clip_match" /\ last.encoder = "ok" /\ Len(vecs.rows) = 0) =>
        /\ call.status = "ok"
        /\ call.takes = <<>>
        /\ call.sims = <<>>

\* a call that asked for Takes from the empty library
C14_Witness ==
    /\ last.op = "clip_match"
    /\ last.encoder = "ok"
    /\ Len(df) = 0
    /\ Len(vecs.rows) = 0
    /\ call.status = "ok"
    /\ call.k >= 1
    /\ call.takes = <<>>

\* C15: when the encoder call fails, clip_match ends with that same failure:
\* it returns no Take list, puts nothing in its place and does not call the
\* encoder again
C15_EncoderFailureSurfaces ==
    (last.op = "clip_match" /\ last.encoder # "ok") =>
        /\ last.encoder \in {"LoadError", "EncodeError"}
        /\ call = [status |-> last.encoder]
        /\ last.status = last.encoder
        /\ last.encoder_calls = 1

\* the encoder failed on a library with clips, after calls that had worked
C15_Witness ==
    /\ last.op = "clip_match"
    /\ last.encoder = "EncodeError"
    /\ call.status = "EncodeError"
    /\ cache = "model"
    /\ Len(df) >= 1

\* v has L2 norm 1.0, up to the rounding of the two fixed point divisions
UnitNorm(v) == Abs(Norm(v) - One) <= 2

\* C16: every embedding the ranker consumes or produces has L2 norm 1: the
\* rows the text encoder returns, the composed query vector, and every row
\* of the library matrix, in memory and persisted, the row of a clip
\* without keyframe included
C16_UnitNormEmbeddings ==
    /\ \A i \in 1..Len(vecs.rows) : UnitNorm(vecs.rows[i])
    /\ \A i \in 1..Len(diskVecs.rows) : UnitNorm(diskVecs.rows[i])
    /\ call.status = "ok" =>
          /\ UnitNorm(call.q_vec)
          /\ \A i \in 1..Len(call.text_embs) : UnitNorm(call.text_embs[i])

\* C17: a clip_match call leaves the table, the matrix and the id list as
\* they were, in memory and persisted, and the persisted index changes in
\* ingestion steps only
C17_MatchReadsOnly ==
    [][/\ last'.op = "clip_match" => UNCHANGED storeVars
       /\ <<diskTable, diskVecs, diskIds>>' # <<diskTable, diskVecs, diskIds>> =>
              last'.op \in {"ingest_one", "bulk"}]_vars

\* a call that ranked the second row of the table first
C17_Witness ==
    /\ last.op = "clip_match"
    /\ call.status = "ok"
    /\ Len(call.takes) >= 2
    /\ call.top_idx[1] # 1
    /\ call.takes[1].clip_id # df[1].id

----------------------------------------------------------------------------
(* Properties of the ranking *)

\* score a is strictly better than score b; a NaN score is the worst
ScoreGt(a, b) == ~a.nan /\ (b.nan \/ a.v > b.v)

\* the spec's example: A 0.80 / 5.0 s, B 0.80 / 8.0 s, C 0.78 / 5.5 s, for a
\* plan of 5.0 s
ExampleSims ==
    <<Adjusted(800, F(50), [duration_s |-> 50]),
      Adjusted(800, F(80), [duration_s |-> 50]),
      Adjusted(780, F(55), [duration_s |-> 50])>>

\* C18: the Takes come best adjusted score first, each is a library row with
\* its adjusted score, and they are the k best of the whole library: fewer
\* than n clips score strictly better than the n-th Take.  In the example
\* the order is A, C, B, so k = 2 gives [A, C]
C18_BestFirst ==
    /\ call.status = "ok" =>
          /\ \A n \in 1..(Len(call.takes) - 1) :
                ~ScoreGt(call.takes[n + 1].similarity, call.takes[n].similarity)
          /\ \A n \in 1..Len(call.takes) :
                /\ \E i \in 1..Len(df) :
                      /\ df[i] = call.takes[n].metadata
                      /\ call.sims[i] = call.takes[n].similarity
                /\ Cardinality({i \in 1..Len(df) :
                                  ScoreGt(call.sims[i], call.takes[n].similarity)}) < n
    /\ ExampleSims = <<F(800), F(770), F(775)>>
    /\ Argsort(ExampleSims) = <<1, 3, 2>>

\* one Take out of five clips, more than the 4k rows the ranker fetches: it
\* is not the first row of the table, it scores strictly better than every
\* other clip, and one of those has a NaN score
C18_Witness ==
    /\ call.status = "ok"
    /\ call.k = 1
    /\ Len(df) = 5
    /\ Len(call.top_idx) = 4
    /\ Len(call.takes) = 1
    /\ call.takes[1].metadata # df[1]
    /\ \A i \in 1..Len(df) :
          df[i] # call.takes[1].metadata => ScoreGt(call.takes[1].similarity, call.sims[i])
    /\ \E i \in 1..Len(df) : call.sims[i].nan

\* C19: for a plan with duration_s = d > 0, the adjusted score of every clip
\* is its raw similarity minus 0.05 * clamp(|clip_duration - d| / d, 0, 1):
\* a number not above the raw similarity and not more than 0.05 below it
C19_PenaltyBounded ==
    (call.status = "ok" /\ call.vp.duration_s > 0) =>
        \A i \in 1..Len(df) :
            LET d == call.vp.duration_s
                clamp == Min(One, Max(0, (Abs(df[i].duration.v - d) * One) \div d))
            IN  /\ ~call.sims[i].nan
                /\ call.sims[i].v = call.raw[i] - clamp \div 20
                /\ call.sims[i].v <= call.raw[i]
                /\ call.sims[i].v >= call.raw[i] - One \div 20

\* the duration of the row is missing or 0
UnknownOrZero(row) == row.duration.nan \/ row.duration.v = 0

\* C20: a clip whose duration is unknown or zero is scored as a clip of
\* duration 0, with the full penalty: adjusted = raw - 0.05; its Take
\* carries a finite similarity and duration 0.0, and it is returned when
\* the library has no more than k clips
C20_UnknownDurationAsZero ==
    (call.status = "ok" /\ call.vp.duration_s > 0) =>
        /\ \A i \in 1..Len(df) :
              UnknownOrZero(df[i]) =>
                  /\ call.sims[i] = F(call.raw[i] - One \div 20)
                  /\ Len(df) <= call.k =>
                        \E n \in 1..Len(call.takes) : call.takes[n].metadata = df[i]
        /\ \A n \in 1..Len(call.takes) :
              UnknownOrZero(call.takes[n].metadata) =>
                  /\ call.takes[n].duration = F(0)
                  /\ ~call.takes[n].similarity.nan

----------------------------------------------------------------------------
(* Properties of the query composer, continued *)

\* C21: the composer emits 1 to 3 parts in the order subject (0.45), action
\* (0.35), space-joined keywords (0.20); a part is there exactly when its
\* field is non-empty, and a missing field leaves the others in their order
C21_ComposerOrder ==
    call.status = "ok" =>
        LET vp == call.vp
            qs == call.queries
            nS == IF vp.primary_subject # "" THEN 1 ELSE 0
            nA == IF vp.action # "" THEN 1 ELSE 0
            nK == IF vp.keywords # <<>> THEN 1 ELSE 0
        IN  /\ Len(qs) \in 1..3
            /\ Len(qs) = Max(1, nS + nA + nK)
            /\ nS = 1 => qs[1] = [text |-> vp.primary_subject, w |-> 45]
            /\ nA = 1 => qs[nS + 1] = [text |-> vp.action, w |-> 35]
            /\ nK = 1 => /\ qs[nS + nA + 1].w = 20
                         /\ vp.keywords = <<"cell", "blood">> =>
                                qs[nS + nA + 1].text = "cell blood"
                         /\ vp.keywords = <<"mechanism">> =>
                                qs[nS + nA + 1].text = "mechanism"

\* a plan without subject: the action part comes first, the keywords second
C21_Witness ==
    /\ call.status = "ok"
    /\ call.vp.primary_subject = ""
    /\ Len(call.queries) = 2
    /\ call.queries[1] = [text |-> "beating", w |-> 35]
    /\ call.queries[2] = [text |-> "cell blood", w |-> 20]

----------------------------------------------------------------------------
(* Properties of the ranking, continued *)

\* the adjusted score of the p-th row of the candidate pool
PoolScore(p) == call.sims[call.top_idx[p]]

\* the place of pool entry p in a stable descending sort of the pool: after
\* every entry that scores strictly better and after every earlier entry
\* that does not score worse
StableRank(p) ==
    1 + Cardinality({q \in 1..Len(call.top_idx) :
                        \/ ScoreGt(PoolScore(q), PoolScore(p))
                        \/ (q < p /\ ~ScoreGt(PoolScore(p), PoolScore(q)))})

\* C22: the final sort is stable under descending order: the Takes are the
\* pool entries by score, entries of equal score in their pool order; and a
\* repeated call on the same inputs has the same pool order
C22_StableResort ==
    /\ call.status = "ok" =>
          /\ Len(call.takes) = Min(call.k, Len(call.top_idx))
          /\ \A p \in 1..Len(call.top_idx) :
                StableRank(p) <= Len(call.takes) =>
                    /\ call.takes[StableRank(p)].metadata = df[call.top_idx[p]]
                    /\ call.takes[StableRank(p)].similarity = PoolScore(p)
    /\ prev # <<>> => prev[2] = call.top_idx

\* a repeated call whose pool holds two different rows of equal score, both
\* returned in their pool order
C22_Witness ==
    /\ prev # <<>>
    /\ call.status = "ok"
    /\ Len(call.takes) = 2
    /\ \E p, q \in 1..Len(call.top_idx) :
          /\ p < q
          /\ ~PoolScore(p).nan
          /\ PoolScore(p) = PoolScore(q)
          /\ df[call.top_idx[p]] # df[call.top_idx[q]]
          /\ call.takes[1].metadata = df[call.top_idx[p]]
          /\ call.takes[2].metadata = df[call.top_idx[q]]

----------------------------------------------------------------------------
(* Properties of the index store, continued *)

\* C23: an ingest_one that returns leaves the rows the table, the matrix and
\* the id list had, adds one row at the end of each, and the last id is the
\* id of the ingested file; what it persisted is what it returned.  This
\* also holds when the id is already in the index
C23_AppendOnly ==
    [][(last'.op = "ingest_one" /\ last'.status = "ok") =>
          /\ Len(df') = Len(df) + 1
          /\ SubSeq(df', 1, Len(df)) = df
          /\ Len(vecs'.rows) = Len(vecs.rows) + 1
          /\ SubSeq(vecs'.rows, 1, Len(vecs.rows)) = vecs.rows
          /\ Len(ids') = Len(ids) + 1
          /\ SubSeq(ids', 1, Len(ids)) = ids
          /\ ids'[Len(ids')] = SubSeq(sha256_file(last'.file.bytes), 1, 4)
          /\ df'[Len(df')].id = ids'[Len(ids')]
          /\ df'[Len(df')].uri = last'.file.name
          /\ diskTable' = df' /\ diskVecs' = vecs' /\ diskIds' = ids']_vars

\* the bytes of a.mp4 were appended a second time, under another name
C23_Witness ==
    /\ last.op = "ingest_one"
    /\ last.status = "ok"
    /\ Len(df) = 2
    /\ Len(vecs.rows) = 2
    /\ ids[1] = ids[2]
    /\ df[1].uri # df[2].uri

----------------------------------------------------------------------------
(* Properties of concurrent use *)

\* both concurrent appends have returned
BothDone == \A w \in Writers : writers[w].pc = "done"

\* C24: two appends that start from the same loaded index of N rows and run
\* without a lock end with a persisted index of N + 1 rows in each artifact,
\* never N + 2: each file is the one its last writer wrote, so a clip is
\* lost from each, and the files may come from different writers
C24_ConcurrentAppendsCorrupt ==
    BothDone =>
        /\ Len(diskTable) = Len(df) + 1
        /\ Len(diskVecs.rows) = Len(df) + 1
        /\ Len(diskIds) = Len(df) + 1
        /\ \E w \in Writers : diskTable = writers[w].df2
        /\ \E w \in Writers : diskVecs = writers[w].vecs2
        /\ \E w \in Writers : diskIds = writers[w].ids2
        /\ writers[1].file.bytes # writers[2].file.bytes =>
              \E w \in Writers :
                  \A i \in (Len(ids) + 1)..Len(diskIds) :
                      diskIds[i] # SubSeq(sha256_file(writers[w].file.bytes), 1, 4)

\* both appends returned and the table on disk was written by one session,
\* the id list by the other: their last rows name different clips
C24_Witness ==
    /\ BothDone
    /\ writers[1].file # writers[2].file
    /\ \E w \in Writers : diskTable = writers[w].df2 /\ diskIds # writers[w].ids2
    /\ diskTable[Len(diskTable)].id # diskIds[Len(diskIds)]
    /\ Len(diskTable) = Len(df) + 1

\* C25: when two threads make their first encoder call at once the model
\* may be built twice, and no more; every call that returned got a model
\* that was fully loaded; once a call has returned the cache holds one
\* model, stored by one thread, and every later call is answered from it
\* without a build
C25_ConcurrentFirstCalls ==
    /\ loads <= Cardinality(Threads)
    /\ \A t \in Threads :
          /\ threads[t].pc = "done" => threads[t].got = "ready"
          /\ threads[t].n > 1 => threads[t].pc \in {"idle", "done"}
          /\ (threads[t].pc = "done" \/ threads[t].n > 1) => cache = "model"
    /\ cache = "model" <=> Cardinality({t \in Threads : threads[t].stored}) = 1
    /\ Cardinality({t \in Threads : threads[t].stored}) <= 1

\* both threads built the model, one of them stored it, and a later call of
\* the other was answered from the cache
C25_Witness ==
    /\ loads = 2
    /\ cache = "model"
    /\ \E t \in Threads :
          /\ ~threads[t].stored
          /\ threads[t].build = "ready"
          /\ threads[t].n = 2
          /\ threads[t].pc = "done"
          /\ threads[t].got = "ready"

----------------------------------------------------------------------------
(* Properties of the clip id *)

\* every row the store holds, in memory or persisted
AllRows == {df[i] : i \in 1..Len(df)} \cup {diskTable[i] : i \in 1..Len(diskTable)}

\* the bytes of the file a row was made from
BytesOf(row) == (CHOOSE f \in Files : f.name = row.uri).bytes

\* C26: the id of a row is the first 16 hex digits of the SHA-256 of the
\* file's bytes (here the first 4 of 6): rows made from identical bytes have
\* the same id, whatever the file name and whichever of ingest_one and the
\* bulk script made them
C26_IdFromContent ==
    \A r1 \in AllRows :
        /\ r1.id = SubSeq(sha256_file(BytesOf(r1)), 1, 4)
        /\ \A r2 \in AllRows : BytesOf(r1) = BytesOf(r2) => r1.id = r2.id

\* the bulk script ingested the bytes under one name, ingest_one under
\* another, and the two rows have the same id
C26_Witness ==
    \E r1, r2 \in AllRows :
        /\ r1.source = "library"
        /\ r2.source = "comfy"
        /\ r1.uri # r2.uri
        /\ BytesOf(r1) = BytesOf(r2)
        /\ r1.id = r2.id

----------------------------------------------------------------------------
(* Properties of the ranking: the pool and the rows *)

\* the k first rows of np.argsort(-sims), taken without pool and re-sort
DirectTopK == SubSeq(Argsort(call.sims), 1, Min(call.k, Len(call.sims)))

\* C27: the list clip_match returns, from a pool of the 4k best rows that is
\* sorted again and cut to k, is the list of the k first rows of the library
\* ordered by adjusted score descending
C27_OverfetchSameAnswer ==
    call.status = "ok" =>
        /\ Len(call.takes) = Len(DirectTopK)
        /\ \A n \in 1..Len(DirectTopK) :
              /\ call.takes[n].metadata = df[DirectTopK[n]]
              /\ call.takes[n].clip_id = df[DirectTopK[n]].id
              /\ call.takes[n].similarity = call.sims[DirectTopK[n]]

\* k = 1 on five clips: the pool of four left a clip out and is not in table
\* order, and the Take is the first row of the direct order
C27_Witness ==
    /\ call.status = "ok"
    /\ call.k = 1
    /\ Len(df) = 5
    /\ Len(call.top_idx) = 4
    /\ call.top_idx # <<1, 2, 3, 4>>
    /\ Len(call.takes) = 1
    /\ DirectTopK # <<1>>
    /\ call.takes[1].metadata = df[DirectTopK[1]]

\* the duration a Take shows for a table row: 0.0 for a falsy duration
ShownDuration(row) == IF ~row.duration.nan /\ row.duration.v = 0 THEN F(0) ELSE row.duration

\* C28: every Take describes one row i of the index: clip_id, clip_uri,
\* duration and metadata are those of table row i, similarity is the
\* adjusted score of matrix row i, clip_id is ids[i], and no i is used twice
C28_TakeDescribesOneRow ==
    call.status = "ok" =>
        /\ \A p, q \in 1..Len(call.top_idx) : call.top_idx[p] = call.top_idx[q] => p = q
        /\ \A p \in 1..Len(call.top_idx) :
              StableRank(p) <= Len(call.takes) =>
                  LET i  == call.top_idx[p]
                      tk == call.takes[StableRank(p)]
                  IN  /\ i <= Len(df) /\ i <= Len(vecs.rows) /\ i <= Len(ids)
                      /\ tk.clip_id = df[i].id
                      /\ tk.clip_uri = df[i].uri
                      /\ tk.metadata = df[i]
                      /\ tk.duration = ShownDuration(df[i])
                      /\ tk.similarity =
                            Adjusted(Dot(vecs.rows[i], call.q_vec) \div One,
                                     df[i].duration, call.vp)
                      /\ tk.clip_id = ids[i]

----------------------------------------------------------------------------
(* Properties of the edit decision list *)

\* the sentence an event of the list was written for
ItemOfEvent(ev) ==
    CHOOSE item \in {sentences[ev.scene_key][j] : j \in 1..Len(sentences[ev.scene_key])} :
        item.id = ev.sentence_id

\* the position of that sentence in its scene
PosOfEvent(ev) ==
    CHOOSE j \in 1..Len(sentences[ev.scene_key]) : sentences[ev.scene_key][j].id = ev.sentence_id

\* C29: the events of the list lie back to back on one timeline: the first
\* starts at 0, each later one starts at the start of the one before plus the
\* larger of that one's clip duration and narration duration, so the starts
\* never decrease; scenes come in ascending numeric index (scene-2 before
\* scene-10) and the sentences of a scene in their order
C29_EdlBackToBack ==
    last.op = "build_edl" =>
        LET v == edl.video
        IN  /\ v # <<>> => v[1].start = F(0)
            /\ \A i \in 1..Len(v) :
                  /\ v[i].scene_key \in DOMAIN sentences
                  /\ \E j \in 1..Len(sentences[v[i].scene_key]) :
                        sentences[v[i].scene_key][j].id = v[i].sentence_id
            /\ \A i \in 1..(Len(v) - 1) :
                  LET item == ItemOfEvent(v[i])
                  IN  /\ v[i + 1].start =
                            F(v[i].start.v + Max(item.accepted_take.duration.v, item.duration_s.v))
                      /\ v[i].start.v <= v[i + 1].start.v
                      /\ SceneIndex(v[i].scene_key) <= SceneIndex(v[i + 1].scene_key)
                      /\ v[i].scene_key = v[i + 1].scene_key
                            => PosOfEvent(v[i]) < PosOfEvent(v[i + 1])

\* a list with both sentences of scene-2 and a sentence of scene-10, one event
\* whose clip outlasts its narration and one whose narration outlasts its clip
C29_Witness ==
    /\ last.op = "build_edl"
    /\ \E i, j, l \in 1..Len(edl.video) :
          /\ i < j /\ j < l
          /\ edl.video[i].scene_key = SceneKey(2)
          /\ edl.video[j].scene_key = SceneKey(2)
          /\ edl.video[l].scene_key = SceneKey(10)
          /\ ItemOfEvent(edl.video[i]).duration_s.v < edl.video[i].out.v
          /\ ItemOfEvent(edl.video[j]).duration_s.v > edl.video[j].out.v
          /\ edl.video[l].start.v > 0

\* a sentence with an accepted take and a narration that lasts
Narrated(item) ==
    /\ item.accepted_take # NoTake
    /\ ~item.duration_s.none /\ item.duration_s.v # 0

\* the sentences with every sentence left out that is not Narrated
OnlyNarrated ==
    [key \in DOMAIN sentences |-> SelectSeq(sentences[key], LAMBDA item : Narrated(item))]

\* C30: a sentence is in the list if and only if it has an accepted take and
\* a non-zero narration duration; the video and the audio list are equally
\* long and their i-th entries carry the same sentence_id and start; the
\* sentences left out do not move the timeline: without them the list is the same
C30_EdlInclusion ==
    last.op = "build_edl" =>
        /\ \A key \in DOMAIN sentences : \A j \in 1..Len(sentences[key]) :
              LET item == sentences[key][j]
                  hits == {i \in 1..Len(edl.video) : edl.video[i].sentence_id = item.id}
              IN  Cardinality(hits) = IF Narrated(item) THEN 1 ELSE 0
        /\ Len(edl.video) = Len(edl.audio)
        /\ \A i \in 1..Len(edl.video) :
              /\ edl.video[i].sentence_id = edl.audio[i].sentence_id
              /\ edl.video[i].start = edl.audio[i].start
        /\ build_edl(OnlyNarrated) = edl

\* scene-2 has a sentence in the list and then one with a take but no
\* narration, scene-10 one with a narration but no take and then one in the list
C30_Witness ==
    /\ last.op = "build_edl"
    /\ SceneKey(10) \in DOMAIN sentences
    /\ Len(sentences[SceneKey(2)]) = 2
    /\ Narrated(sentences[SceneKey(2)][1])
    /\ sentences[SceneKey(2)][2].accepted_take # NoTake
    /\ sentences[SceneKey(2)][2].duration_s.none
    /\ sentences[SceneKey(10)][1].accepted_take = NoTake
    /\ ~sentences[SceneKey(10)][1].duration_s.none
    /\ Narrated(sentences[SceneKey(10)][2])
    /\ Len(edl.video) = 2
    /\ edl.audio[2].start.v > 0

====
